---- MODULE Spec2Model ----
(***************************************************************************)
(* One run of streamlit_app.py: main() fetches the RV032 table, loads the  *)
(* county GeoJSON, lets the user pick a year, plots, and shows a pivot     *)
(* table.  Text is modelled as sequences of one-character strings so that  *)
(* str.replace, str.lower, CSV splitting and numeric conversion are        *)
(* computed, not assumed.                                                  *)
(***************************************************************************)
EXTENDS Integers, Sequences, FiniteSets, TLC

VARIABLES pc, response, df, messages, request,
          requested, outcomes, gdf, geo_source,
          selected_year, data_for_year, fig, table, total_growth,
          norm_data, norm_geo, key_data, key_geo, norm_match

vars == << pc, response, df, messages, request,
           requested, outcomes, gdf, geo_source,
           selected_year, data_for_year, fig, table, total_growth,
           norm_data, norm_geo, key_data, key_geo, norm_match >>

(***************************************************************************)
(* Bounds of the model.                                                    *)
(***************************************************************************)
\* seeds of the pseudo-random generator behind np.random.randint: 0..MaxSeed
MaxSeed == 1

(***************************************************************************)
(* Text: Python str as a sequence of characters.                           *)
(***************************************************************************)
UpperLetters == <<"A","B","C","D","E","F","G","H","I","J","K","L","M","N","O","P","Q","R","S","T","U","V","W","X","Y","Z","Ä","Õ","Ö","Ü">>
LowerLetters == <<"a","b","c","d","e","f","g","h","i","j","k","l","m","n","o","p","q","r","s","t","u","v","w","x","y","z","ä","õ","ö","ü">>
\* characters in code-point order, the order Python and pandas compare str by
CodePoints == <<" ",",","-","0","1","2","3","4","5","6","7","8","9",";","A","B","C","D","E","F","G","H","I","J","K","L","M","N","O","P","Q","R","S","T","U","V","W","X","Y","Z","a","b","c","d","e","f","g","h","i","j","k","l","m","n","o","p","q","r","s","t","u","v","w","x","y","z","Ä","Õ","Ö","Ü","ä","õ","ö","ü">>
Digits == <<"0","1","2","3","4","5","6","7","8","9">>

IndexOf(seq, x) == CHOOSE i \in 1..Len(seq) : seq[i] = x
Contains(seq, x) == \E i \in 1..Len(seq) : seq[i] = x

\* one character of str.lower()
LowerTable == [c \in {UpperLetters[i] : i \in 1..Len(UpperLetters)} |-> LowerLetters[IndexOf(UpperLetters, c)]]
LowerChar(c) == IF c \in DOMAIN LowerTable THEN LowerTable[c] ELSE c
\* str.lower()
StrLower(s) == [i \in 1..Len(s) |-> LowerChar(s[i])]

\* str.replace(old, new): every non-overlapping occurrence, left to right,
\* compared character by character (case-sensitive)
RECURSIVE StrReplace(_, _, _)
StrReplace(s, old, new) ==
  IF Len(s) < Len(old) THEN s
  ELSE IF SubSeq(s, 1, Len(old)) = old
       THEN new \o StrReplace(SubSeq(s, Len(old) + 1, Len(s)), old, new)
       ELSE <<s[1]>> \o StrReplace(Tail(s), old, new)

\* str comparison a < b by code point
CodeTable == [c \in {CodePoints[i] : i \in 1..Len(CodePoints)} |-> IndexOf(CodePoints, c)]
CharCode(c) == IF c \in DOMAIN CodeTable THEN CodeTable[c] ELSE Len(CodePoints) + 1
RECURSIVE StrLess(_, _)
StrLess(a, b) ==
  IF b = <<>> THEN FALSE
  ELSE IF a = <<>> THEN TRUE
  ELSE IF CharCode(a[1]) # CharCode(b[1]) THEN CharCode(a[1]) < CharCode(b[1])
  ELSE StrLess(Tail(a), Tail(b))

\* the fields of s between occurrences of the one-character separator sep
FirstIndex(s, c) == CHOOSE k \in 1..Len(s) : s[k] = c /\ \A j \in 1..(k - 1) : s[j] # c
RECURSIVE Split(_, _)
SplitAt(s, sep, i) == <<SubSeq(s, 1, i - 1)>> \o Split(SubSeq(s, i + 1, Len(s)), sep)
Split(s, sep) == IF ~Contains(s, sep) THEN <<s>> ELSE SplitAt(s, sep, FirstIndex(s, sep))

RECURSIVE Join(_, _)
Join(fields, sep) ==
  IF fields = <<>> THEN <<>>
  ELSE IF Len(fields) = 1 THEN fields[1]
  ELSE fields[1] \o <<sep>> \o Join(Tail(fields), sep)

(***************************************************************************)
(* Numbers as text.                                                        *)
(***************************************************************************)
IsDigits(s) == s # <<>> /\ \A i \in 1..Len(s) : Contains(Digits, s[i])
\* text that pandas reads as an integer
IsInt(s) == IsDigits(s) \/ (s # <<>> /\ s[1] = "-" /\ IsDigits(Tail(s)))
RECURSIVE ParseDigits(_, _)
ParseDigits(s, acc) ==
  IF s = <<>> THEN acc ELSE ParseDigits(Tail(s), acc * 10 + (IndexOf(Digits, s[1]) - 1))
ParseInt(s) == IF s[1] = "-" THEN 0 - ParseDigits(Tail(s), 0) ELSE ParseDigits(s, 0)
RECURSIVE FormatNat(_)
FormatNat(n) == IF n < 10 THEN <<Digits[n + 1]>> ELSE FormatNat(n \div 10) \o <<Digits[(n % 10) + 1]>>
\* str(n)
FormatInt(n) == IF n < 0 THEN <<"-">> \o FormatNat(0 - n) ELSE FormatNat(n)

(***************************************************************************)
(* Cells of a table: a str, a number, or the missing value (NaN / None).   *)
(***************************************************************************)
Str(s) == [kind |-> "str", val |-> s]
Num(n) == [kind |-> "num", val |-> n]
NaN == [kind |-> "nan", val |-> 0]
IsStr(c) == c.kind = "str"
IsNum(c) == c.kind = "num"
IsNaN(c) == c.kind = "nan"
\* == on cells: a missing value equals nothing, itself included
CellEq(a, b) == ~IsNaN(a) /\ ~IsNaN(b) /\ a = b
\* sort order of group keys: numbers by value, str by code point
CellLess(a, b) ==
  IF IsNum(a) /\ IsNum(b) THEN a.val < b.val
  ELSE IF IsStr(a) /\ IsStr(b) THEN StrLess(a.val, b.val)
  ELSE IsNum(a) /\ IsStr(b)

(***************************************************************************)
(* Names the program uses.                                                 *)
(***************************************************************************)
S_Aasta == <<"A","a","s","t","a">>
S_Maakond == <<"M","a","a","k","o","n","d">>
S_Sugu == <<"S","u","g","u">>
S_Loomulik_iive == <<"L","o","o","m","u","l","i","k"," ","i","i","v","e">>
S_maakond_suffix == <<" ","m","a","a","k","o","n","d">>
YearColumnNames == {<<"a","a","s","t","a">>, <<"y","e","a","r">>, <<"t","i","m","e">>}
CountyColumnNames == {<<"m","a","a","k","o","n","d">>, <<"c","o","u","n","t","y">>, <<"r","e","g","i","o","n">>}
GenderColumnNames == {<<"s","u","g","u">>, <<"g","e","n","d","e","r">>, <<"s","e","x">>}
ValueColumnNames == {<<"v","a","l","u","e">>, <<"l","o","o","m","u","l","i","k"," ","i","i","v","e">>, <<"n","a","t","u","r","a","l"," ","i","n","c","r","e","a","s","e">>}

STATISTIKAAMETI_API_URL == "https://andmed.stat.ee/api/v1/et/stat/RV032"
GEOJSON_URLS ==
  << "https://raw.githubusercontent.com/okestonia/Estonian-Open-Geodata/master/geojson/maakond.geojson",
     "https://raw.githubusercontent.com/buildig/EHAK/master/geojson/maakond.geojson",
     "https://raw.githubusercontent.com/buildig/Estonian-Open-Geodata/master/geojson/maakond.geojson" >>

\* the query of JSON_PAYLOAD_STR: the values selected for each code
PayloadAasta == <<2014, 2015, 2016, 2017, 2018, 2019, 2020, 2021, 2022, 2023>>
PayloadMaakond ==
  << <<"3","9">>,
     <<"4","4">>,
     <<"4","9">>,
     <<"5","1">>,
     <<"5","7">>,
     <<"5","9">>,
     <<"6","5">>,
     <<"6","7">>,
     <<"7","0">>,
     <<"7","4">>,
     <<"7","8">>,
     <<"8","2">>,
     <<"8","4">>,
     <<"8","6">> >>
PayloadSugu == << <<"2">>, <<"3">> >>
JSON_PAYLOAD ==
  [Aasta |-> PayloadAasta, Maakond |-> PayloadMaakond, Sugu |-> PayloadSugu, format |-> "csv"]

\* the counties list of create_sample_data
counties ==
  << <<"H","a","r","j","u"," ","m","a","a","k","o","n","d">>,
     <<"H","i","i","u"," ","m","a","a","k","o","n","d">>,
     <<"I","d","a","-","V","i","r","u"," ","m","a","a","k","o","n","d">>,
     <<"J","õ","g","e","v","a"," ","m","a","a","k","o","n","d">>,
     <<"J","ä","r","v","a"," ","m","a","a","k","o","n","d">>,
     <<"L","ä","ä","n","e"," ","m","a","a","k","o","n","d">>,
     <<"L","ä","ä","n","e","-","V","i","r","u"," ","m","a","a","k","o","n","d">>,
     <<"P","õ","l","v","a"," ","m","a","a","k","o","n","d">>,
     <<"P","ä","r","n","u"," ","m","a","a","k","o","n","d">>,
     <<"R","a","p","l","a"," ","m","a","a","k","o","n","d">>,
     <<"S","a","a","r","e"," ","m","a","a","k","o","n","d">>,
     <<"T","a","r","t","u"," ","m","a","a","k","o","n","d">>,
     <<"V","a","l","g","a"," ","m","a","a","k","o","n","d">>,
     <<"V","i","l","j","a","n","d","i"," ","m","a","a","k","o","n","d">>,
     <<"V","õ","r","u"," ","m","a","a","k","o","n","d">> >>
\* the counties list of import_geojson's placeholder (the same 15 names)
placeholder_counties ==
  << <<"H","a","r","j","u"," ","m","a","a","k","o","n","d">>,
     <<"H","i","i","u"," ","m","a","a","k","o","n","d">>,
     <<"I","d","a","-","V","i","r","u"," ","m","a","a","k","o","n","d">>,
     <<"J","õ","g","e","v","a"," ","m","a","a","k","o","n","d">>,
     <<"J","ä","r","v","a"," ","m","a","a","k","o","n","d">>,
     <<"L","ä","ä","n","e"," ","m","a","a","k","o","n","d">>,
     <<"L","ä","ä","n","e","-","V","i","r","u"," ","m","a","a","k","o","n","d">>,
     <<"P","õ","l","v","a"," ","m","a","a","k","o","n","d">>,
     <<"P","ä","r","n","u"," ","m","a","a","k","o","n","d">>,
     <<"R","a","p","l","a"," ","m","a","a","k","o","n","d">>,
     <<"S","a","a","r","e"," ","m","a","a","k","o","n","d">>,
     <<"T","a","r","t","u"," ","m","a","a","k","o","n","d">>,
     <<"V","a","l","g","a"," ","m","a","a","k","o","n","d">>,
     <<"V","i","l","j","a","n","d","i"," ","m","a","a","k","o","n","d">>,
     <<"V","õ","r","u"," ","m","a","a","k","o","n","d">> >>
genders == << <<"M","e","h","e","d">>, <<"N","a","i","s","e","d">> >>
years == [i \in 1..10 |-> 2013 + i]

(***************************************************************************)
(* Tables (pandas DataFrame): column names and rows of cells.              *)
(***************************************************************************)
DataFrame(cols, rows) == [sample |-> FALSE, seed |-> 0, cols |-> cols, rows |-> rows]
HasCol(t, name) == Contains(t.cols, name)
ColIdx(t, name) == IndexOf(t.cols, name)
Cell(t, row, name) == row[ColIdx(t, name)]
Max(a, b) == IF a >= b THEN a ELSE b

\* response.content.decode('utf-8-sig'): a leading byte-order mark is dropped
DecodeUtf8Sig(content) ==
  IF content # <<>> /\ content[1] = "BOM" THEN Tail(content) ELSE content

\* pd.read_csv(StringIO(text), sep=sep).  Blank lines are skipped; the first
\* line names the columns; a first data line wider than the header makes its
\* leading fields the index; a later line wider than that is a tokenizing
\* error; short lines are padded with missing values; a column whose cells
\* all read as integers is numeric, any other column holds str.
ParseError == [ok |-> FALSE, df |-> DataFrame(<<>>, <<>>)]
\* the field of a data line under column j, empty when the line is short
RawCell(line, lead, j) == IF lead + j <= Len(line) THEN line[lead + j] ELSE <<>>
ColumnIsNumeric(data, lead, j) ==
  \A i \in 1..Len(data) : RawCell(data[i], lead, j) = <<>> \/ IsInt(RawCell(data[i], lead, j))
TypedCell(raw, numeric) ==
  IF raw = <<>> THEN NaN ELSE IF numeric THEN Num(ParseInt(raw)) ELSE Str(raw)
TypedRows(data, lead, numeric) ==
  [i \in 1..Len(data) |-> [j \in 1..Len(numeric) |-> TypedCell(RawCell(data[i], lead, j), numeric[j])]]
ReadTable(header, data, width) ==
  IF \E i \in 1..Len(data) : Len(data[i]) > width THEN ParseError
  ELSE [ok |-> TRUE,
        df |-> DataFrame(header,
                         TypedRows(data, width - Len(header),
                                   <<>> \o [j \in 1..Len(header) |-> ColumnIsNumeric(data, width - Len(header), j)]))]
ReadFields(header, data) ==
  ReadTable(header, data, IF data = <<>> THEN Len(header) ELSE Max(Len(header), Len(data[1])))
ReadLines(lines, sep) ==
  IF lines = <<>> THEN ParseError
  ELSE ReadFields(Split(lines[1], sep), <<>> \o [i \in 1..(Len(lines) - 1) |-> Split(lines[i + 1], sep)])
read_csv(text, sep) == ReadLines(SelectSeq(Split(text, "\n"), LAMBDA l : l # <<>>), sep)

\* the first column whose lower-cased name is a candidate
FirstMatch(cols, candidates) ==
  CHOOSE i \in 1..Len(cols) :
    /\ StrLower(cols[i]) \in candidates
    /\ \A j \in 1..(i - 1) : StrLower(cols[j]) \notin candidates
\* df.rename(columns={old: target})
Rename(cols, old, target) == [i \in 1..Len(cols) |-> IF cols[i] = old THEN target ELSE cols[i]]

\* the column-identifying loops of import_data: when target is no column, the
\* first column whose lower-cased name is a candidate is renamed to target
RenameFirst(cols, target, candidates) ==
  IF Contains(cols, target) \/ ~\E i \in 1..Len(cols) : StrLower(cols[i]) \in candidates
  THEN cols
  ELSE <<>> \o Rename(cols, cols[FirstMatch(cols, candidates)], target)

\* value_col: the first column whose lower-cased name is a value name is
\* renamed to 'Loomulik iive'
RenameValue(cols) ==
  IF ~\E i \in 1..Len(cols) : StrLower(cols[i]) \in ValueColumnNames
  THEN cols
  ELSE <<>> \o Rename(cols, cols[FirstMatch(cols, ValueColumnNames)], S_Loomulik_iive)

\* pd.to_numeric(cell, errors='coerce')
to_numeric(c) ==
  IF IsStr(c) THEN (IF IsInt(c.val) THEN Num(ParseInt(c.val)) ELSE NaN) ELSE c

ConvertAt(cols, rows, k) ==
  DataFrame(cols, [i \in 1..Len(rows) |-> [j \in 1..Len(cols) |-> IF j = k THEN to_numeric(rows[i][j]) ELSE rows[i][j]]])
\* df[name] = pd.to_numeric(df[name], errors='coerce')
ConvertColumn(t, name) == ConvertAt(t.cols, t.rows, ColIdx(t, name))

\* np.random.randint(low, high): a value of low..high-1, drawn by a generator
\* whose state is the seed and the number of draws made so far
randint(seed, draw, low, high) == low + ((seed * 61 + draw * 37) % (high - low))

\* the rows create_sample_data builds: year by year, county by county, the
\* two genders, each with a drawn value
create_sample_rows(seed) ==
  LET n == Len(years) * Len(counties) * Len(genders)
      y(i) == ((i - 1) \div (Len(counties) * Len(genders))) + 1
      c(i) == (((i - 1) \div Len(genders)) % Len(counties)) + 1
      g(i) == ((i - 1) % Len(genders)) + 1
      value(i) == IF counties[c(i)] # counties[1]
                  THEN randint(seed, i, -100, 100)
                  ELSE randint(seed, i, 0, 500)
  IN [i \in 1..n |-> << Num(years[y(i)]), Str(counties[c(i)]), Str(genders[g(i)]), Num(value(i)) >>]

\* create_sample_data(): the table of those rows, held by the seed that
\* determines them (Rows expands it)
create_sample_data(seed) ==
  [sample |-> TRUE, seed |-> seed, cols |-> <<S_Aasta, S_Maakond, S_Sugu, S_Loomulik_iive>>, rows |-> <<>>]
\* the rows of a table
Rows(t) == IF t.sample THEN create_sample_rows(t.seed) ELSE t.rows

\* what import_data returns: the table, and the st.warning / st.error calls made
Returned(t, msgs) == [df |-> t, messages |-> msgs]

\* the renaming of the year, county, gender and value columns, in that order
IdentifyColumns(cols) ==
  RenameValue(RenameFirst(RenameFirst(RenameFirst(cols, S_Aasta, YearColumnNames),
                                      S_Maakond, CountyColumnNames),
                          S_Sugu, GenderColumnNames))
\* the required-columns check and the numeric conversion
import_data_columns(cols, rows, seed) ==
  IF ~Contains(cols, S_Aasta) \/ ~Contains(cols, S_Maakond) \/ ~Contains(cols, S_Loomulik_iive)
  THEN Returned(create_sample_data(seed), <<"warning: required columns missing">>)
  ELSE Returned(ConvertColumn(ConvertColumn(DataFrame(cols, rows), S_Aasta), S_Loomulik_iive), <<>>)
\* sep=';' is tried first and sep=',' only when that raised
import_data_read(semi, comma, seed) ==
  IF ~semi.ok /\ ~comma.ok
  THEN Returned(create_sample_data(seed), <<"warning: could not parse API response">>)
  ELSE IF semi.ok THEN import_data_columns(IdentifyColumns(semi.df.cols), semi.df.rows, seed)
  ELSE import_data_columns(IdentifyColumns(comma.df.cols), comma.df.rows, seed)
\* the body of the status-200 branch after decoding
import_data_parsed(text, seed) == import_data_read(read_csv(text, ";"), read_csv(text, ","), seed)

\* a failure branch that returns a table of no rows
import_data_failed_empty(seed, msg) ==
  Returned(DataFrame(<<S_Aasta, S_Maakond, S_Sugu, S_Loomulik_iive>>, <<>>), <<msg>>)
\* what the failure branches return
import_data_failed(seed, msg) == Returned(create_sample_data(seed), <<msg>>)

\* import_data(): resp is what requests.post does (raises, or answers with a
\* status and a body)
import_data(resp, seed) ==
  IF resp.raises THEN import_data_failed(seed, "error: Error fetching data")
  ELSE IF resp.status_code = 200 THEN import_data_parsed(DecodeUtf8Sig(resp.content), seed)
  ELSE import_data_failed(seed, "error: Failed to fetch data")

(***************************************************************************)
(* Geometry tables (GeoDataFrame): attribute fields and records, each      *)
(* record with or without a geometry.                                      *)
(***************************************************************************)
GeoDataFrame(fields, recs) == [fields |-> fields, recs |-> recs]
GeoRec(attrs, geometry) == [attrs |-> attrs, geometry |-> geometry]
GeoAttr(g, rec, f) == rec.attrs[IndexOf(g.fields, f)]
\* None not in gdf.geometry.values
NoGeometryMissing(g) == \A i \in 1..Len(g.recs) : g.recs[i].geometry

\* the table import_geojson builds when every URL failed
placeholder_gdf ==
  GeoDataFrame(<<"MAAKOND">>,
               [i \in 1..Len(placeholder_counties) |-> GeoRec(<<Str(placeholder_counties[i])>>, FALSE)])

\* a loop that gives up after the first URL that failed
import_geojson_first_only(i, outcome) ==
  IF outcome.kind = "loaded"
  THEN [returned |-> TRUE, gdf |-> outcome.gdf, source |-> GEOJSON_URLS[i]]
  ELSE [returned |-> TRUE, gdf |-> placeholder_gdf, source |-> "placeholder"]
\* One pass of import_geojson's loop over GEOJSON_URLS for the URL at index i,
\* whose fetch does `outcome`: the table is returned when it loaded; when the
\* last URL failed the loop ends and the placeholder is returned.
import_geojson_step(i, outcome) ==
  IF outcome.kind = "loaded"
  THEN [returned |-> TRUE, gdf |-> outcome.gdf, source |-> GEOJSON_URLS[i]]
  ELSE IF i < Len(GEOJSON_URLS)
  THEN [returned |-> FALSE, gdf |-> GeoDataFrame(<<>>, <<>>), source |-> ""]
  ELSE [returned |-> TRUE, gdf |-> placeholder_gdf, source |-> "placeholder"]

(***************************************************************************)
(* get_data_for_year and plot.                                             *)
(***************************************************************************)
\* df[df.Aasta == year]
FilterEq(cols, rows, k, value) == DataFrame(cols, SelectSeq(rows, LAMBDA r : CellEq(r[k], value)))
get_data_for_year(t, year) == FilterEq(t.cols, Rows(t), ColIdx(t, S_Aasta), year)

RECURSIVE SumValues(_)
\* Series.sum(): missing values are skipped
SumValues(cells) ==
  IF cells = <<>> THEN 0
  ELSE (IF IsNum(cells[1]) THEN cells[1].val ELSE 0) + SumValues(Tail(cells))

RECURSIVE InsertKey(_, _)
InsertKey(k, sorted) ==
  IF sorted = <<>> THEN <<k>>
  ELSE IF CellLess(k, sorted[1]) THEN <<k>> \o sorted
  ELSE <<sorted[1]>> \o InsertKey(k, Tail(sorted))
RECURSIVE SortKeys(_)
\* the group keys in sorted order
SortKeys(keys) ==
  IF keys = {} THEN <<>>
  ELSE LET k == CHOOSE x \in keys : TRUE
       IN InsertKey(k, SortKeys(keys \ {k}))

Column(rows, k) == [i \in 1..Len(rows) |-> rows[i][k]]
ColumnOf(t, name) == Column(t.rows, ColIdx(t, name))
\* the sum of column v over the rows whose column k is key
SumWhere(rows, k, key, v) == SumValues(Column(SelectSeq(rows, LAMBDA r : r[k] = key), v))
\* the distinct values of column k, missing values dropped, sorted
KeysOf(rows, k) == SortKeys({rows[i][k] : i \in 1..Len(rows)} \ {NaN})
GroupSums(rows, k, v, keys) ==
  [i \in 1..Len(keys) |-> [Maakond |-> keys[i], value |-> SumWhere(rows, k, keys[i], v)]]

\* t.groupby('Maakond')['Loomulik iive'].sum().reset_index(): one row per
\* county, missing counties dropped, keys sorted
groupby_sum(t) ==
  GroupSums(t.rows, ColIdx(t, S_Maakond), ColIdx(t, S_Loomulik_iive), KeysOf(t.rows, ColIdx(t, S_Maakond)))

CountyFieldCandidates == <<"MAAKOND", "MNIMI", "name", "ONIMI", "maakond">>
HasCountyField(g) == \E i \in 1..Len(CountyFieldCandidates) : Contains(g.fields, CountyFieldCandidates[i])
\* the first candidate that is a field of the table
county_field(g) ==
  CountyFieldCandidates[CHOOSE i \in 1..Len(CountyFieldCandidates) :
                          /\ Contains(g.fields, CountyFieldCandidates[i])
                          /\ \A j \in 1..(i - 1) : ~Contains(g.fields, CountyFieldCandidates[j])]

\* county.replace(' maakond', '').lower() if isinstance(county, str) else county
clean_county(county) ==
  IF IsStr(county) THEN Str(StrLower(StrReplace(county.val, S_maakond_suffix, <<>>))) ELSE county

DictSet(d, k, v) == [x \in (DOMAIN d) \cup {k} |-> IF x = k THEN v ELSE d[x]]
EmptyDict == [x \in {} |-> NaN]

RECURSIVE MapDataCounties(_, _)
\* first loop: county_mapping[clean_county] = county, for the data's counties
MapDataCounties(cd, d) ==
  IF cd = <<>> THEN d
  ELSE MapDataCounties(Tail(cd), DictSet(d, clean_county(cd[1].Maakond), cd[1].Maakond))

RECURSIVE MapGeoCounties(_, _)
\* second loop: a geometry name whose clean form is a key becomes a key too
MapGeoCounties(names, d) ==
  IF names = <<>> THEN d
  ELSE MapGeoCounties(Tail(names),
                      IF clean_county(names[1]) \in DOMAIN d
                      THEN DictSet(d, names[1], d[clean_county(names[1])])
                      ELSE d)

GeoNames(g) == [i \in 1..Len(g.recs) |-> GeoAttr(g, g.recs[i], county_field(g))]
county_mapping(g, cd) == MapGeoCounties(GeoNames(g), MapDataCounties(cd, EmptyDict))

\* the lambda behind gdf['mapped_county']
mapped_county(d, x) ==
  IF IsStr(x) /\ clean_county(x) \in DOMAIN d THEN d[clean_county(x)] ELSE NaN

\* pandas refuses to merge a str key column with an integer key column
MergeRaises(g, cd) == g.recs # <<>> /\ cd # <<>> /\ \E i \in 1..Len(cd) : IsNum(cd[i].Maakond)

MergedRow(name, mapped, maakond, value) ==
  [name |-> name, mapped_county |-> mapped, Maakond |-> maakond, value |-> value]

\* how='inner': a left record without a matching right row is dropped
InnerJoinHits(name, m, hits) ==
  [i \in 1..Len(hits) |-> MergedRow(name, m, hits[i].Maakond, Num(hits[i].value))]
JoinHits(name, m, hits) ==
  IF hits = <<>> THEN << MergedRow(name, m, NaN, NaN) >>
  ELSE [i \in 1..Len(hits) |-> MergedRow(name, m, hits[i].Maakond, Num(hits[i].value))]
\* the joined rows of one left record, whose key is m
JoinRecord(name, m, cd) == JoinHits(name, m, SelectSeq(cd, LAMBDA r : CellEq(r.Maakond, m)))
RECURSIVE LeftJoin(_, _, _)
\* how='left': each left record in order, once per matching right row, and
\* once with missing values when no right row matches
LeftJoin(names, d, cd) ==
  IF names = <<>> THEN <<>>
  ELSE JoinRecord(names[1], mapped_county(d, names[1]), cd) \o LeftJoin(Tail(names), d, cd)

\* gdf.merge(county_data, left_on='mapped_county', right_on='Maakond', how='left')
merge(g, cd) == LeftJoin(GeoNames(g), county_mapping(g, cd), cd)

RECURSIVE InsertSorted(_, _, _)
InsertSorted(x, sorted, tie) ==
  IF sorted = <<>> THEN <<x>>
  ELSE IF x.value < sorted[1].value \/ (x.value = sorted[1].value /\ tie = "reversed")
       THEN <<x>> \o sorted
       ELSE <<sorted[1]>> \o InsertSorted(x, Tail(sorted), tie)
RECURSIVE SortAscending(_, _, _)
SortAscending(todo, sorted, tie) ==
  IF todo = <<>> THEN sorted
  ELSE SortAscending(Tail(todo), InsertSorted(todo[1], sorted, tie), tie)
\* county_data.sort_values('Loomulik iive'): ascending; the order of equal
\* values is not specified: `tie` picks one of two orders
sort_values(cd, tie) == SortAscending(cd, <<>>, tie)

\* the horizontal bar chart: one bar per row, coloured by sign
Bars(cd) ==
  [i \in 1..Len(cd) |-> [Maakond |-> cd[i].Maakond, value |-> cd[i].value,
                         color |-> IF cd[i].value > 0 THEN "green" ELSE "red"]]

Axes(kind, merged, bars) == [kind |-> kind, merged |-> merged, bars |-> bars]
\* what plot did: what is drawn, whether it raised, what it reported
Plotted(ax, raised, errors) == [ax |-> ax, raised |-> raised, errors |-> errors]

\* the bar chart of both the no-geometry branch and the except branch;
\* pandas cannot draw a bar chart of no rows, and the text is drawn instead
BarAxes(sorted) == IF sorted = <<>> THEN Axes("text", <<>>, <<>>) ELSE Axes("bar", <<>>, Bars(sorted))
bar_chart(t, tie) == BarAxes(sort_values(groupby_sum(t), tie))

\* the try / except of plot, with county_data computed
plot_county_data(g, t, tie, cd) ==
  IF NoGeometryMissing(g)
  THEN IF MergeRaises(g, cd)
       THEN [ax |-> bar_chart(t, tie), errors |-> <<"error: Error creating map">>]
       ELSE [ax |-> Axes("map", merge(g, cd), <<>>), errors |-> <<>>]
  ELSE IF cd = <<>>
       THEN [ax |-> bar_chart(t, tie), errors |-> <<"error: Error creating map">>]
       ELSE [ax |-> bar_chart(t, tie), errors |-> <<>>]
plot_body(g, t, tie) == plot_county_data(g, t, tie, groupby_sum(t))

\* plt.title(... data_for_year.Aasta.iloc[0] ...): raises when there is no row
Titled(b, t) == Plotted(b.ax, t.rows = <<>>, b.errors)

\* plot(gdf, data_for_year): without a county field it returns early; else
\* the title reads the first row's year, which raises when there is no row
plot(g, t, tie) ==
  IF ~HasCountyField(g)
  THEN Plotted(Axes(IF NoGeometryMissing(g) THEN "boundaries" ELSE "empty", <<>>, <<>>), FALSE,
               <<"error: Could not identify county name field in GeoJSON">>)
  ELSE Titled(plot_body(g, t, tie), t)

(***************************************************************************)
(* The data table of main.                                                 *)
(***************************************************************************)
\* sorted(df['Aasta'].unique()): the years the selector offers
Distinct(rows, k) == {rows[i][k] : i \in 1..Len(rows)}
available_years(t) == Distinct(Rows(t), ColIdx(t, S_Aasta))

\* one cell of pivot_table(index='Maakond', columns='Sugu', aggfunc='sum')
\* aggfunc='first': the first row's value stands for the group
CellFirst(rows, v) == IF rows = <<>> THEN NaN ELSE rows[1][v]
CellSum(rows, v) == IF rows = <<>> THEN NaN ELSE Num(SumValues(Column(rows, v)))
PivotCellAt(rows, m, s, v, county, sex) ==
  CellSum(SelectSeq(rows, LAMBDA r : r[m] = county /\ r[s] = sex), v)
pivot_cell(t, county, sex) ==
  PivotCellAt(t.rows, ColIdx(t, S_Maakond), ColIdx(t, S_Sugu), ColIdx(t, S_Loomulik_iive), county, sex)

\* the 'Kokku' column: data_for_year.groupby('Maakond')['Loomulik iive'].sum()
county_totals(t) == groupby_sum(t)

RECURSIVE InsertDescending(_, _, _)
InsertDescending(x, sorted, tie) ==
  IF sorted = <<>> THEN <<x>>
  ELSE IF x.Kokku > sorted[1].Kokku \/ (x.Kokku = sorted[1].Kokku /\ tie = "reversed")
       THEN <<x>> \o sorted
       ELSE <<sorted[1]>> \o InsertDescending(x, Tail(sorted), tie)
RECURSIVE SortDescending(_, _, _)
SortDescending(todo, sorted, tie) ==
  IF todo = <<>> THEN sorted
  ELSE SortDescending(Tail(todo), InsertDescending(todo[1], sorted, tie), tie)

\* the pivot table with its total column, sorted by total, largest first
PivotRow(t, sexes, total) ==
  [Maakond |-> total.Maakond, sexes |-> sexes,
   persex |-> [i \in 1..Len(sexes) |-> pivot_cell(t, total.Maakond, sexes[i])],
   Kokku |-> total.value]
\* pivot_table keeps the counties that have a row with a sex; the merge with
\* the totals is on 'Maakond'
PivotRows(t, sexes, totals) ==
  SelectSeq([i \in 1..Len(totals) |-> PivotRow(t, sexes, totals[i])],
            LAMBDA r : \E i \in 1..Len(sexes) : ~IsNaN(r.persex[i]))
pivot_data(t, tie) ==
  SortDescending(PivotRows(t, KeysOf(t.rows, ColIdx(t, S_Sugu)), county_totals(t)), <<>>, tie)

\* the table main displays: the pivot when there is a 'Sugu' column, else the rows
data_table(t, tie) ==
  IF HasCol(t, S_Sugu) THEN [kind |-> "pivot", rows |-> pivot_data(t, tie)]
  ELSE [kind |-> "raw", rows |-> t.rows]

(***************************************************************************)
(* The world outside: what the statistics API and the GeoJSON hosts        *)
(* answer.                                                                 *)
(***************************************************************************)
S_Harju_maakond == <<"H","a","r","j","u"," ","m","a","a","k","o","n","d">>
S_Tartu_maakond == <<"T","a","r","t","u"," ","m","a","a","k","o","n","d">>
S_Hiiu_maakond == <<"H","i","i","u"," ","m","a","a","k","o","n","d">>
S_harju == <<"h","a","r","j","u">>
S_tartu == <<"t","a","r","t","u">>
S_Harju_Maakond == <<"H","a","r","j","u"," ","M","a","a","k","o","n","d">>
S_HIIU_MAAKOND == <<"H","I","I","U"," ","M","A","A","K","O","N","D">>
S_Mehed == <<"M","e","h","e","d">>
S_Naised == <<"N","a","i","s","e","d">>
S_39 == <<"3","9">>

\* one CSV record of the API: year, county, sex, value
Row(year, county, sex, value) == << FormatInt(year), county, sex, FormatInt(value) >>
HeaderEt == << S_Aasta, S_Maakond, S_Sugu, S_Loomulik_iive >>
HeaderEn == << <<"Y","e","a","r">>, <<"C","o","u","n","t","y">>, <<"S","e","x">>, <<"V","a","l","u","e">> >>
Payload(header, rows) == [header |-> header, rows |-> rows]

\* the scenario rows: county code 39, sexes 2 and 3
PayloadCodes == Payload(HeaderEt, << Row(2023, S_39, <<"2">>, 120), Row(2023, S_39, <<"3">>, -30) >>)
PayloadNames ==
  Payload(HeaderEt, << Row(2023, S_Harju_maakond, S_Mehed, 120), Row(2023, S_Harju_maakond, S_Naised, -30),
                       Row(2023, S_Tartu_maakond, S_Mehed, 5), Row(2022, S_Harju_maakond, S_Mehed, 7) >>)
PayloadEnglish ==
  Payload(HeaderEn, << Row(2023, S_Harju_maakond, S_Mehed, 120), Row(2023, S_Hiiu_maakond, S_Naised, -30) >>)
PayloadCase ==
  Payload(HeaderEt, << Row(2023, S_harju, S_Mehed, 10), Row(2023, S_Tartu_maakond, S_Naised, -4),
                       Row(2023, S_Tartu_maakond, S_Naised, 6), Row(2023, S_Harju_maakond, S_Mehed, 1) >>)
PayloadTies ==
  Payload(HeaderEt, << Row(2023, S_Hiiu_maakond, S_Mehed, -3), Row(2023, S_Tartu_maakond, S_Mehed, -3),
                       Row(2023, S_Harju_maakond, S_Naised, 0), Row(2022, S_Hiiu_maakond, S_Naised, 3) >>)
\* a year cell that is no number
PayloadBadYear ==
  Payload(HeaderEt, << Row(2023, S_Harju_maakond, S_Mehed, 120),
                       << <<"x","x">>, S_Harju_maakond, S_Naised, <<"5">> >> >>)
\* a value cell that is no number (the API writes ".." for a missing value)
PayloadBadValue ==
  Payload(HeaderEt, << Row(2023, S_Harju_maakond, S_Mehed, 120),
                       << <<"2","0","2","3">>, S_Harju_maakond, S_Naised, <<".",".">> >> >>)
\* no 'Sugu' column
PayloadNoSex ==
  Payload(<< S_Aasta, S_Maakond, S_Loomulik_iive >>,
          << << <<"2","0","2","3">>, S_Harju_maakond, <<"9">> >>, << <<"2","0","2","2">>, S_Tartu_maakond, <<"-","2">> >> >>)
Payloads == { PayloadCodes, PayloadNames, PayloadEnglish, PayloadCase, PayloadTies,
              PayloadBadYear, PayloadBadValue, PayloadNoSex }
\* every year cell and every value cell is an integer, every row has a cell per column
WellFormed(p) ==
  /\ \A i \in 1..Len(p.rows) : Len(p.rows[i]) = Len(p.header) /\ \A j \in 1..Len(p.header) : p.rows[i][j] # <<>>
  /\ p.header \in {HeaderEt, HeaderEn}
  /\ \A i \in 1..Len(p.rows) : IsInt(p.rows[i][1]) /\ IsInt(p.rows[i][4])

Delimiters == {",", ";"}
RECURSIVE EncodeLines(_, _)
EncodeLines(rows, delimiter) ==
  IF rows = <<>> THEN <<>>
  ELSE Join(rows[1], delimiter) \o <<"\n">> \o EncodeLines(Tail(rows), delimiter)
\* the CSV text the API writes for a payload
EncodeCsv(p, delimiter, bom) ==
  (IF bom THEN <<"BOM">> ELSE <<>>) \o EncodeLines(<<p.header>> \o p.rows, delimiter)

\* bodies neither separator splits evenly: a comma-separated body with one
\* semicolon inside a county cell, and the same with a surplus field
RaggedComma ==
  EncodeLines(<< HeaderEt, Row(2023, S_Harju_maakond, S_Mehed, 4),
                 Row(2023, S_Tartu_maakond \o <<";">> \o S_Hiiu_maakond, S_Mehed, 5) >>, ",")
RaggedBoth == RaggedComma \o Join(<< <<"2","0","2","3">>, S_harju, <<";">>, S_Mehed, <<"1">>, <<"2">> >>, ",") \o <<"\n">>

Response(raises, status_code, content, payload, delimiter) ==
  [raises |-> raises, status_code |-> status_code, content |-> content,
   payload |-> payload, delimiter |-> delimiter]
NoPayload == Payload(<<>>, <<>>)
Responses ==
  {Response(FALSE, 200, EncodeCsv(p, ";", FALSE), p, ";") : p \in Payloads}
  \cup {Response(FALSE, 200, EncodeCsv(p, ",", FALSE), p, ",") : p \in {PayloadCodes, PayloadNames, PayloadEnglish}}
  \cup {Response(FALSE, 200, EncodeCsv(PayloadNames, d, TRUE), PayloadNames, d) : d \in Delimiters}
  \cup {Response(FALSE, 200, c, NoPayload, "ragged") : c \in {RaggedComma, RaggedBoth}}
  \cup {Response(FALSE, sc, <<>>, NoPayload, "none") : sc \in {404, 500}}
  \cup {Response(TRUE, 0, <<>>, NoPayload, "none")}

GeoNamed ==
  GeoDataFrame(<<"MNIMI">>, << GeoRec(<<Str(S_Harju_maakond)>>, TRUE), GeoRec(<<Str(S_Tartu_maakond)>>, TRUE),
                               GeoRec(<<Str(S_Hiiu_maakond)>>, TRUE) >>)
GeoCase ==
  GeoDataFrame(<<"id", "name">>, << GeoRec(<<Num(37), Str(S_Harju_Maakond)>>, TRUE), GeoRec(<<Num(78), Str(S_tartu)>>, TRUE),
                                    GeoRec(<<Num(39), Str(S_HIIU_MAAKOND)>>, TRUE) >>)
GeoNoField ==
  GeoDataFrame(<<"NIMI">>, << GeoRec(<<Str(S_Harju_maakond)>>, TRUE), GeoRec(<<Str(S_Tartu_maakond)>>, TRUE) >>)
GeoPartial ==
  GeoDataFrame(<<"ONIMI", "MAAKOND">>, << GeoRec(<<Str(S_harju), Str(S_Harju_maakond)>>, TRUE),
                                          GeoRec(<<Str(S_tartu), Str(S_Tartu_maakond)>>, FALSE) >>)
GeoSources == { GeoNamed, GeoCase, GeoNoField, GeoPartial }
UrlOutcomes ==
  {[kind |-> "loaded", gdf |-> g] : g \in GeoSources}
  \cup {[kind |-> "status", gdf |-> GeoDataFrame(<<>>, <<>>)], [kind |-> "raises", gdf |-> GeoDataFrame(<<>>, <<>>)]}
TieOrders == {"stable", "reversed"}

(***************************************************************************)
(* One run of main.                                                        *)
(***************************************************************************)
NoTable == DataFrame(<<>>, <<>>)
NoGdf == GeoDataFrame(<<>>, <<>>)
NoFig == Plotted(Axes("none", <<>>, <<>>), FALSE, <<>>)
NoResponse == Response(FALSE, 0, <<>>, NoPayload, "none")
NoName == [county |-> "", name |-> <<>>]

Init ==
  /\ pc = "start"
  /\ response = NoResponse
  /\ df = NoTable
  /\ messages = <<>>
  /\ request = <<>>
  /\ requested = <<>>
  /\ outcomes = <<>>
  /\ gdf = NoGdf
  /\ geo_source = ""
  /\ selected_year = NaN
  /\ data_for_year = NoTable
  /\ fig = NoFig
  /\ table = [kind |-> "none", rows |-> <<>>]
  /\ total_growth = 0
  /\ norm_data = NoName /\ norm_geo = NoName
  /\ key_data = NaN /\ key_geo = NaN /\ norm_match = NaN

\* df = import_data()
ImportData ==
  /\ pc = "start"
  /\ \E resp \in Responses, seed \in 0..MaxSeed :
       \E r \in {import_data(resp, seed)} :
          /\ response' = resp
          /\ df' = r.df
          /\ messages' = r.messages
  /\ request' = << [url |-> STATISTIKAAMETI_API_URL, json |-> JSON_PAYLOAD] >>
  /\ pc' = "geo"
  /\ UNCHANGED << requested, outcomes, gdf, geo_source, selected_year, data_for_year,
                  fig, table, total_growth, norm_data, norm_geo, key_data, key_geo, norm_match >>

\* gdf = import_geojson(): one pass of its loop
ImportGeojson ==
  /\ pc = "geo"
  /\ \E outcome \in UrlOutcomes :
       \E r \in {import_geojson_step(Len(requested) + 1, outcome)} :
          /\ requested' = Append(requested, GEOJSON_URLS[Len(requested) + 1])
          /\ outcomes' = Append(outcomes, IF outcome.kind = "loaded" THEN "loaded" ELSE "failed")
          /\ IF r.returned
             THEN gdf' = r.gdf /\ geo_source' = r.source /\ pc' = "select"
             ELSE UNCHANGED << gdf, geo_source, pc >>
  /\ UNCHANGED << response, df, messages, request, selected_year, data_for_year,
                  fig, table, total_growth, norm_data, norm_geo, key_data, key_geo, norm_match >>

\* the year selector and get_data_for_year
SelectYear ==
  /\ pc = "select"
  /\ \E year \in available_years(df) :
       /\ selected_year' = year
       /\ data_for_year' = get_data_for_year(df, year)
  /\ pc' = "plot"
  /\ UNCHANGED << response, df, messages, request, requested, outcomes, gdf,
                  geo_source, fig, table, total_growth, norm_data, norm_geo, key_data, key_geo, norm_match >>

\* fig = plot(gdf, data_for_year); an error plot does not catch ends the run
Plot ==
  /\ pc = "plot"
  /\ \E tie \in TieOrders :
       \E f \in {plot(gdf, data_for_year, tie)} :
          /\ fig' = f
          /\ messages' = messages \o f.errors
          /\ pc' = IF f.raised THEN "crashed" ELSE "table"
  /\ UNCHANGED << response, df, request, requested, outcomes, gdf, geo_source,
                  selected_year, data_for_year, table, total_growth, norm_data, norm_geo, key_data, key_geo, norm_match >>

\* the data table, the total metric and the caption
ShowTable ==
  /\ pc = "table"
  /\ \E tie \in TieOrders : table' = data_table(data_for_year, tie)
  /\ total_growth' = SumValues(ColumnOf(data_for_year, S_Loomulik_iive))
  /\ pc' = "done"
  /\ UNCHANGED << response, df, messages, request, requested, outcomes, gdf,
                  geo_source, selected_year, data_for_year, fig, norm_data, norm_geo, key_data, key_geo, norm_match >>

Next == ImportData \/ ImportGeojson \/ SelectYear \/ Plot \/ ShowTable

Spec == Init /\ [][Next]_vars

(***************************************************************************)
(* The county-name normalization of plot, on pairs of spellings: one as    *)
(* the data names a county, one as a geometry record names it.             *)
(***************************************************************************)
\* spellings of two counties: with and without the suffix, in several cases
CountySpellings ==
  {
    [county |-> "Harju", name |-> <<"H","a","r","j","u"," ","M","a","a","k","o","n","d">>],
    [county |-> "Harju", name |-> <<"H","a","r","j","u"," ","m","a","a","k","o","n","d">>],
    [county |-> "Harju", name |-> <<"H","A","R","J","U"," ","M","A","A","K","O","N","D">>],
    [county |-> "Harju", name |-> <<"h","a","r","j","u">>],
    [county |-> "Harju", name |-> <<"H","a","r","j","u">>],
    [county |-> "Harju", name |-> <<"h","a","r","j","u"," ","m","a","a","k","o","n","d">>],
    [county |-> "Tartu", name |-> <<"T","a","r","t","u"," ","M","a","a","k","o","n","d">>],
    [county |-> "Tartu", name |-> <<"T","a","r","t","u"," ","m","a","a","k","o","n","d">>],
    [county |-> "Tartu", name |-> <<"T","A","R","T","U"," ","M","A","A","K","O","N","D">>],
    [county |-> "Tartu", name |-> <<"t","a","r","t","u">>],
    [county |-> "Tartu", name |-> <<"T","a","r","t","u">>],
    [county |-> "Tartu", name |-> <<"t","a","r","t","u"," ","m","a","a","k","o","n","d">>]
  }

InitNorm ==
  /\ pc = "normalize"
  /\ norm_data \in CountySpellings
  /\ norm_geo \in CountySpellings
  /\ key_data = NaN /\ key_geo = NaN /\ norm_match = NaN
  /\ response = NoResponse
  /\ df = NoTable
  /\ messages = <<>>
  /\ request = <<>>
  /\ requested = <<>>
  /\ outcomes = <<>>
  /\ gdf = NoGdf
  /\ geo_source = ""
  /\ selected_year = NaN
  /\ data_for_year = NoTable
  /\ fig = NoFig
  /\ table = [kind |-> "none", rows |-> <<>>]
  /\ total_growth = 0

\* the two loops that build county_mapping and the lambda behind
\* gdf['mapped_county'], for one data county and one geometry record
NormalizeCounty ==
  /\ pc = "normalize"
  /\ key_data' = clean_county(Str(norm_data.name))
  /\ key_geo' = clean_county(Str(norm_geo.name))
  /\ norm_match' = mapped_county(MapGeoCounties(<<Str(norm_geo.name)>>,
                                                MapDataCounties(<<[Maakond |-> Str(norm_data.name), value |-> 0]>>, EmptyDict)),
                                 Str(norm_geo.name))
  /\ pc' = "normalized"
  /\ UNCHANGED << response, df, messages, request, requested, outcomes, gdf, geo_source,
                  selected_year, data_for_year, fig, table, total_growth, norm_data, norm_geo >>

NextNorm == NormalizeCounty

SpecNorm == InitNorm /\ [][NextNorm]_vars

C2_KokkuIsSumOfSexes ==
  (pc = "done" /\ table.kind = "pivot") =>
    \A i \in 1..Len(table.rows) :
      /\ table.rows[i].Kokku = SumValues(table.rows[i].persex)
      /\ table.rows[i].Kokku =
           SumValues(Column(SelectSeq(data_for_year.rows,
                                      LAMBDA r : Cell(data_for_year, r, S_Maakond) = table.rows[i].Maakond),
                            ColIdx(data_for_year, S_Loomulik_iive)))
\* a county with a value for each sex, and a county with two rows of one sex
C2_Witness ==
  /\ pc = "done" /\ table.kind = "pivot"
  /\ \E i \in 1..Len(table.rows) :
       \/ table.rows[i].persex = <<Num(120), Num(-30)>> /\ table.rows[i].Kokku = 90
       \/ table.rows[i].persex = <<NaN, Num(2)>> /\ table.rows[i].Kokku = 2

\* C3: two spellings of one county (with or without the suffix, in any
\* case) normalize to the same key, and the geometry record spelled one way
\* matches the data county spelled the other way.
C3_SpellingsShareOneKey ==
  (pc = "normalized" /\ norm_data.county = norm_geo.county) =>
    /\ key_data = key_geo
    /\ norm_match = Str(norm_data.name)

\* C4: from the rows (2023, "39", "2", 120) and (2023, "39", "3", -30) and a
\* geometry record named "Harju maakond", the year 2023 joins the value 90
\* onto that record.
C4_CodeRowsJoinHarju ==
  (/\ pc \in {"table", "done", "crashed"}
   /\ response.payload = PayloadCodes /\ response.delimiter = ";"
   /\ gdf = GeoNamed
   /\ selected_year = Num(2023))
  => /\ fig.ax.kind = "map"
     /\ \E i \in 1..Len(fig.ax.merged) :
          fig.ax.merged[i].name = Str(S_Harju_maakond) /\ fig.ax.merged[i].value = Num(90)

\* C5: for a well-formed payload answered with status 200, import_data
\* returns the payload's rows, not sample data, and the same table for the
\* comma-delimited and the semicolon-delimited body.
C5_SameRowsForBothDelimiters ==
  (/\ pc # "start"
   /\ response.status_code = 200 /\ ~response.raises
   /\ response.delimiter \in Delimiters
   /\ WellFormed(response.payload))
  => /\ ~df.sample
     /\ Len(df.rows) = Len(response.payload.rows)
     /\ \A d \in Delimiters :
          import_data(Response(FALSE, 200, EncodeCsv(response.payload, d, FALSE), response.payload, d), 0).df = df

\* C6 as stated: after a non-200 answer or a raised request, the failure is
\* reported and the returned table has no rows.
C6_FailureReturnsEmpty ==
  (pc # "start" /\ (response.raises \/ response.status_code # 200)) =>
    /\ messages # <<>>
    /\ messages[1] \in {"error: Error fetching data", "error: Failed to fetch data"}
    /\ Rows(df) = <<>>
\* C6: after a non-200 answer or a raised request, the failure is reported
\* and the returned table is the sample data: 300 rows, year by year from
\* 2014 to 2023, the 15 counties within a year, the 2 genders within a
\* county, Harju's values in 0..499 and the others' in -100..99.
C6_FailureReturnsSampleData ==
  (pc # "start" /\ (response.raises \/ response.status_code # 200)) =>
    /\ messages # <<>>
    /\ messages[1] = (IF response.raises THEN "error: Error fetching data" ELSE "error: Failed to fetch data")
    /\ df.sample
    /\ df.cols = <<S_Aasta, S_Maakond, S_Sugu, S_Loomulik_iive>>
    /\ LET rows == Rows(df)
       IN /\ Len(rows) = 300
          /\ \A i \in 1..300 :
               /\ rows[i][1] = Num(2014 + ((i - 1) \div 30))
               /\ rows[i][2] = Str(counties[(((i - 1) \div 2) % 15) + 1])
               /\ rows[i][3] = Str(genders[((i - 1) % 2) + 1])
               /\ IsNum(rows[i][4])
               /\ IF rows[i][2] = Str(S_Harju_maakond)
                  THEN rows[i][4].val \in 0..499
                  ELSE rows[i][4].val \in -100..99
\* a 404 answer, reported, with the sample data returned
C6_Witness ==
  /\ pc = "geo"
  /\ response.status_code = 404
  /\ df.sample
  /\ messages = <<"error: Failed to fetch data">>

\* C7: the URLs are requested in list order, each only after every earlier
\* one failed, none after one loaded; the loaded table is returned; the
\* placeholder (15 named records, none with a geometry) is returned only
\* after all three failed; whatever the outcomes, the function returns.
C7_UrlsTriedInOrder ==
  /\ Len(requested) <= Len(GEOJSON_URLS)
  /\ Len(outcomes) = Len(requested)
  /\ \A i \in 1..Len(requested) : requested[i] = GEOJSON_URLS[i]
  /\ \A i \in 1..(Len(outcomes) - 1) : outcomes[i] = "failed"
  /\ pc = "start" => requested = <<>>
  /\ pc = "geo" => Len(requested) < Len(GEOJSON_URLS) /\ \A i \in 1..Len(outcomes) : outcomes[i] = "failed"
  /\ pc \notin {"start", "geo", "normalize", "normalized"} =>
       /\ Len(outcomes) >= 1
       /\ IF outcomes[Len(outcomes)] = "loaded"
          THEN geo_source = GEOJSON_URLS[Len(outcomes)] /\ gdf \in GeoSources
          ELSE /\ Len(outcomes) = Len(GEOJSON_URLS)
               /\ geo_source = "placeholder"
               /\ gdf.fields = <<"MAAKOND">>
               /\ Len(gdf.recs) = 15
               /\ \A i \in 1..Len(gdf.recs) :
                    ~gdf.recs[i].geometry /\ gdf.recs[i].attrs = <<Str(placeholder_counties[i])>>
  /\ pc = "crashed" => fig.raised
\* all three URLs failed and the placeholder was returned
C7_Witness ==
  /\ pc = "select"
  /\ outcomes = <<"failed", "failed", "failed">>
  /\ geo_source = "placeholder"

\* C8: the county codes requested from the statistics API are as many as the
\* counties the geometry side lists (15), one code per county.
C8_RequestedCodesCoverAllCounties ==
  pc \notin {"start", "normalize", "normalized"} =>
    Cardinality({request[1].json.Maakond[i] : i \in 1..Len(request[1].json.Maakond)})
      = Cardinality({placeholder_counties[i] : i \in 1..Len(placeholder_counties)})

\* C9: with a county field and a record without geometry, or when the map
\* branch raised, plot has drawn a bar chart and no map: one bar per county
\* of the selected year's sums, ascending by value, green above zero and red
\* otherwise.
C9_BarChartWithoutGeometry ==
  (pc \in {"table", "done", "crashed"} /\ HasCountyField(gdf)) =>
    LET cd == groupby_sum(data_for_year)
        bars == fig.ax.bars
    IN (~NoGeometryMissing(gdf) \/ MergeRaises(gdf, cd)) =>
         /\ fig.ax.kind = "bar"
         /\ fig.ax.merged = <<>>
         /\ Len(bars) = Len(cd)
         /\ \A j \in 1..Len(cd) :
              \E i \in 1..Len(bars) : bars[i].Maakond = cd[j].Maakond /\ bars[i].value = cd[j].value
         /\ \A i \in 1..(Len(bars) - 1) : bars[i].value <= bars[i + 1].value
         /\ \A i \in 1..Len(bars) : bars[i].color = (IF bars[i].value > 0 THEN "green" ELSE "red")

\* C10: every year the selector offers selects at least one row, and the run
\* never ends in an uncaught error.
C10_EveryOfferedYearHasRows ==
  /\ pc \in {"plot", "table", "done", "crashed"} => Len(data_for_year.rows) >= 1
  /\ pc # "crashed"

====
